---- MODULE Spec2Model ----
(***************************************************************************)
(* Model of the authored logic of 03_multidim_analysis.ipynb:              *)
(*   download_file, load_scale_factors, calculate_reflectance and the      *)
(*   NDVI expression, with the local directory, the remote bucket and the  *)
(*   notebook's cell sequence as state.                                    *)
(***************************************************************************)
EXTENDS Integers, Sequences, FiniteSets, TLC

VARIABLES
    fs,        \* the local directory: a function from the existing paths to their content
    served,    \* the remote bucket: the object behind each URL
    prev,      \* the download_file call before the last one
    last,      \* the last download_file call
    red,       \* the red band array (xr.open_rasterio(red_filename))
    nir,       \* the near-infrared band array
    red_toa,   \* notebook variable red_toa
    nir_toa,   \* notebook variable nir_toa
    ndvi,      \* notebook variable ndvi
    call,      \* the last call of load_scale_factors / calculate_reflectance
    pc,        \* the notebook's position in its cell sequence
    err        \* the exception the runtime displayed, and the step that raised it

vars == <<fs, served, prev, last, red, nir, red_toa, nir_toa, ndvi, call, pc, err>>

dlvars == <<fs, prev, last>>
nbvars == <<red_toa, nir_toa, ndvi, call, pc, err>>

----------------------------------------------------------------------------
(* Bounds of the model *)

\* the arrays have at most MaxLen coordinate labels
MaxLen == 2

----------------------------------------------------------------------------
(* Names of the notebook *)

nir_filename == "url+nirband"
red_filename == "url+redband"
mtl_filename == "url+mtlfile"

URLs == {nir_filename, red_filename, mtl_filename}
Paths == {"nir.tif", "red.tif", "meta.json"}

\* red is band 4, near infrared is band 5
RedBand == 4
NirBand == 5
Bands == {RedBand, NirBand}

----------------------------------------------------------------------------
(* Metadata documents and file contents *)

EmptyMap == [k \in {} |-> 0]

\* 'REFLECTANCE_MULT_BAND_{}'.format(band_number)
MultKey(band_number) == "REFLECTANCE_MULT_BAND_" \o ToString(band_number)
\* 'REFLECTANCE_ADD_BAND_{}'.format(band_number)
AddKey(band_number) == "REFLECTANCE_ADD_BAND_" \o ToString(band_number)

CoefKeys == {MultKey(b) : b \in Bands} \cup {AddKey(b) : b \in Bands}

\* The coefficients of the documents: SceneA with any of its keys absent, and SceneB,
\* which leaves the pixel values as they are.
SceneA == (MultKey(4) :> 2) @@ (AddKey(4) :> -62) @@ (MultKey(5) :> 3) @@ (AddKey(5) :> -1)
SceneB == (MultKey(4) :> 1) @@ (AddKey(4) :> 0) @@ (MultKey(5) :> 1) @@ (AddKey(5) :> 0)

Rescalings == {[k \in K |-> SceneA[k]] : K \in SUBSET CoefKeys} \cup {SceneB}

\* The parsed JSON documents: the nested mapping, with each level possibly absent.
Metadata ==
    {EmptyMap, [k \in {"L1_METADATA_FILE"} |-> EmptyMap]}
    \cup {[k \in {"L1_METADATA_FILE"} |-> [j \in {"RADIOMETRIC_RESCALING"} |-> r]] : r \in Rescalings}

\* A file content or response body: JSON text of a document, or bytes that are no JSON.
JsonText(m) == [text |-> "json", value |-> m]
TiffBytes(u) == [text |-> u, value |-> EmptyMap]
ErrorPage == [text |-> "error page", value |-> EmptyMap]
Truncated == [text |-> "truncated", value |-> EmptyMap]
NoContent == [text |-> "none", value |-> EmptyMap]

----------------------------------------------------------------------------
(* The environment of download_file *)

\* requests.get(url): raises, or returns a response; the status is not looked at.
ConnectionError == [raised |-> TRUE, status_code |-> 0, content |-> NoContent]
Responses(bucket, url) ==
    {[raised |-> FALSE, status_code |-> 200, content |-> bucket[url]],
     [raised |-> FALSE, status_code |-> 404, content |-> ErrorPage]}
requests_get(bucket, url) == {ConnectionError} \cup Responses(bucket, url)

\* open(out_filename, 'wb') and f.write: succeed, or raise OSError.
DiskOutcomes == {"ok", "open raises", "write raises"}

os_path_exists(fsys, path) == path \in DOMAIN fsys

WriteFile(fsys, path, content) ==
    [p \in (DOMAIN fsys) \cup {path} |-> IF p = path THEN content ELSE fsys[p]]

\* Mutant: no file-existence check, every call downloads.
download_file_always(fsys, in_filename, out_filename, net, disk) ==
    IF net.raised
    THEN [fs |-> fsys, nreq |-> 1, outcome |-> "request raised", content |-> NoContent]
    ELSE IF disk = "open raises"
    THEN [fs |-> fsys, nreq |-> 1, outcome |-> "open raised", content |-> net.content]
    ELSE IF disk = "write raises"
    THEN [fs |-> WriteFile(fsys, out_filename, Truncated), nreq |-> 1,
          outcome |-> "write raised", content |-> net.content]
    ELSE [fs |-> WriteFile(fsys, out_filename, net.content), nreq |-> 1,
          outcome |-> "returned", content |-> net.content]

\* Mutant: the request is repeated once when it raises.
download_file_retry(fsys, in_filename, out_filename, net, disk) ==
    IF os_path_exists(fsys, out_filename)
    THEN [fs |-> fsys, nreq |-> 0, outcome |-> "returned", content |-> NoContent]
    ELSE IF net.raised
    THEN [fs |-> fsys, nreq |-> 2, outcome |-> "request raised", content |-> NoContent]
    ELSE download_file_always(fsys, in_filename, out_filename, net, disk)

\* Mutant: the file is opened for writing before the request is made.
download_file_open_first(fsys, in_filename, out_filename, net, disk) ==
    IF os_path_exists(fsys, out_filename)
    THEN [fs |-> fsys, nreq |-> 0, outcome |-> "returned", content |-> NoContent]
    ELSE IF disk = "open raises"
    THEN [fs |-> fsys, nreq |-> 0, outcome |-> "open raised", content |-> NoContent]
    ELSE IF net.raised
    THEN [fs |-> WriteFile(fsys, out_filename, Truncated), nreq |-> 1,
          outcome |-> "request raised", content |-> NoContent]
    ELSE download_file_always(fsys, in_filename, out_filename, net, disk)

\* Mutant: a request that raises is swallowed (try/except) and the call returns.
download_file_swallow(fsys, in_filename, out_filename, net, disk) ==
    IF os_path_exists(fsys, out_filename)
    THEN [fs |-> fsys, nreq |-> 0, outcome |-> "returned", content |-> NoContent]
    ELSE IF net.raised
    THEN [fs |-> fsys, nreq |-> 1, outcome |-> "returned", content |-> NoContent]
    ELSE download_file_always(fsys, in_filename, out_filename, net, disk)

\* download_file(in_filename, out_filename) in directory fsys, with the outcome net of
\* requests.get and the outcome disk of open/write: the directory after the call, the
\* number of requests made, how the call ended and the response body.
download_file(fsys, in_filename, out_filename, net, disk) ==
    IF os_path_exists(fsys, out_filename)
    THEN [fs |-> fsys, nreq |-> 0, outcome |-> "returned", content |-> NoContent]
    ELSE IF net.raised
    THEN [fs |-> fsys, nreq |-> 1, outcome |-> "request raised", content |-> NoContent]
    ELSE IF disk = "open raises"
    THEN [fs |-> fsys, nreq |-> 1, outcome |-> "open raised", content |-> net.content]
    ELSE IF disk = "write raises"
    THEN [fs |-> WriteFile(fsys, out_filename, Truncated), nreq |-> 1,
          outcome |-> "write raised", content |-> net.content]
    ELSE [fs |-> WriteFile(fsys, out_filename, net.content), nreq |-> 1,
          outcome |-> "returned", content |-> net.content]

NoCall == [in |-> "", out |-> "", existed |-> FALSE, nreq |-> 0,
           outcome |-> "none", content |-> NoContent]

\* What is kept of the call before the last one.
Summary(c) == [in |-> c.in, out |-> c.out, nreq |-> c.nreq, outcome |-> c.outcome]

CallRecord(fsys, u, p, r) ==
    [in |-> u, out |-> p, existed |-> os_path_exists(fsys, p), nreq |-> r.nreq,
     outcome |-> r.outcome, content |-> r.content]

----------------------------------------------------------------------------
(* Arrays: a function from the coordinate labels to the pixel values *)

PixelVals == {0, 218}
Coords == 1..MaxLen
Arrays == UNION {[D -> PixelVals] : D \in (SUBSET Coords) \ {{}}}

\* A notebook variable is undefined, or holds a value.
Undefined == <<>>
Val(v) == <<v>>

\* with open(filename) as f: metadata = json.load(f)
json_load(fsys, filename) ==
    IF ~os_path_exists(fsys, filename)
    THEN [exc |-> "FileNotFoundError", value |-> <<>>]
    ELSE IF fsys[filename].text # "json"
    THEN [exc |-> "ValueError", value |-> <<>>]
    ELSE [exc |-> "none", value |-> <<fsys[filename].value>>]

\* metadata['L1_METADATA_FILE']['RADIOMETRIC_RESCALING'][key]
Lookup(metadata, key) ==
    IF "L1_METADATA_FILE" \notin DOMAIN metadata
    THEN [exc |-> "KeyError", value |-> <<>>]
    ELSE IF "RADIOMETRIC_RESCALING" \notin DOMAIN metadata["L1_METADATA_FILE"]
    THEN [exc |-> "KeyError", value |-> <<>>]
    ELSE IF key \notin DOMAIN metadata["L1_METADATA_FILE"]["RADIOMETRIC_RESCALING"]
    THEN [exc |-> "KeyError", value |-> <<>>]
    ELSE [exc |-> "none",
          value |-> <<metadata["L1_METADATA_FILE"]["RADIOMETRIC_RESCALING"][key]>>]

\* Mutant: the pair is returned in the other order.
load_scale_factors_swapped(fsys, filename, band_number) ==
    LET doc == json_load(fsys, filename) IN
    IF doc.exc # "none" THEN [exc |-> doc.exc, value |-> <<>>]
    ELSE LET M_p == Lookup(doc.value[1], MultKey(band_number))
             A_p == Lookup(doc.value[1], AddKey(band_number)) IN
         IF M_p.exc # "none" THEN [exc |-> M_p.exc, value |-> <<>>]
         ELSE IF A_p.exc # "none" THEN [exc |-> A_p.exc, value |-> <<>>]
         ELSE [exc |-> "none", value |-> << <<A_p.value[1], M_p.value[1]>> >>]

\* Mutant: an absent coefficient defaults (multiplier 1, offset 0), as with dict.get.
load_scale_factors_default(fsys, filename, band_number) ==
    LET doc == json_load(fsys, filename) IN
    IF doc.exc # "none" THEN [exc |-> doc.exc, value |-> <<>>]
    ELSE LET M_p == Lookup(doc.value[1], MultKey(band_number))
             A_p == Lookup(doc.value[1], AddKey(band_number)) IN
         [exc |-> "none",
          value |-> << <<IF M_p.exc # "none" THEN 1 ELSE M_p.value[1],
                         IF A_p.exc # "none" THEN 0 ELSE A_p.value[1]>> >>]

\* load_scale_factors(filename, band_number): the exception raised, or the pair returned.
load_scale_factors(fsys, filename, band_number) ==
    LET doc == json_load(fsys, filename) IN
    IF doc.exc # "none" THEN [exc |-> doc.exc, value |-> <<>>]
    ELSE LET M_p == Lookup(doc.value[1], MultKey(band_number))
             A_p == Lookup(doc.value[1], AddKey(band_number)) IN
         IF M_p.exc # "none" THEN [exc |-> M_p.exc, value |-> <<>>]
         ELSE IF A_p.exc # "none" THEN [exc |-> A_p.exc, value |-> <<>>]
         ELSE [exc |-> "none", value |-> << <<M_p.value[1], A_p.value[1]>> >>]

\* Mutant: multiplier and offset change places in the formula.
calculate_reflectance_swapped(fsys, ds, band_number, metafile) ==
    LET sf == load_scale_factors(fsys, metafile, band_number) IN
    IF sf.exc # "none" THEN [exc |-> sf.exc, value |-> <<>>, ds |-> ds]
    ELSE LET M_p == sf.value[1][1]
             A_p == sf.value[1][2] IN
         [exc |-> "none", value |-> <<[i \in DOMAIN ds |-> A_p * ds[i] + M_p]>>, ds |-> ds]

\* Mutant: the array is rescaled in place (ds *= M_p; ds += A_p).
calculate_reflectance_inplace(fsys, ds, band_number, metafile) ==
    LET sf == load_scale_factors(fsys, metafile, band_number) IN
    IF sf.exc # "none" THEN [exc |-> sf.exc, value |-> <<>>, ds |-> ds]
    ELSE LET M_p == sf.value[1][1]
             A_p == sf.value[1][2]
             toa == [i \in DOMAIN ds |-> M_p * ds[i] + A_p] IN
         [exc |-> "none", value |-> <<toa>>, ds |-> toa]

\* calculate_reflectance(ds, band_number, metafile='meta.json'): the exception raised or
\* the array returned, and the argument array after the call.
calculate_reflectance(fsys, ds, band_number, metafile) ==
    LET sf == load_scale_factors(fsys, metafile, band_number) IN
    IF sf.exc # "none" THEN [exc |-> sf.exc, value |-> <<>>, ds |-> ds]
    ELSE LET M_p == sf.value[1][1]
             A_p == sf.value[1][2] IN
         [exc |-> "none", value |-> <<[i \in DOMAIN ds |-> M_p * ds[i] + A_p]>>, ds |-> ds]

\* A quotient of the array library: numerator and denominator. A zero denominator is
\* the library's nan or inf, no exception.
Quot(n, d) == [num |-> n, den |-> d]

\* Mutant: sum and difference change places.
ndvi_expr_inverted(A, B) ==
    [i \in (DOMAIN A) \cap (DOMAIN B) |-> Quot(A[i] + B[i], A[i] - B[i])]

\* (nir_toa - red_toa) / (nir_toa + red_toa): elementwise over the labels both arrays
\* have (the array library aligns its operands on their coordinates).
ndvi_expr(A, B) ==
    [i \in (DOMAIN A) \cap (DOMAIN B) |-> Quot(A[i] - B[i], A[i] + B[i])]

----------------------------------------------------------------------------
(* Initial states *)

NoErr == [step |-> "", exc |-> "none"]
NoFnCall == [fn |-> "none", band |-> 0, ds |-> <<>>, exc |-> "none", value |-> <<>>,
             ds_after |-> <<>>]

\* The bucket holds the two rasters and one metadata document.
Bucket(m) ==
    (nir_filename :> TiffBytes("nir")) @@ (red_filename :> TiffBytes("red"))
    @@ (mtl_filename :> JsonText(m))
Buckets == {Bucket(m) : m \in Metadata}

\* The contents meta.json may have: any document, or bytes that are no JSON.
MetaContents == {JsonText(m) : m \in Metadata} \cup {ErrorPage, Truncated}

\* The arrays xr.open_rasterio returns for two bands of one scene: the same labels.
SceneArrays == {a \in Arrays : DOMAIN a = Coords}

\* A document with every coefficient.
FullDoc == [k \in {"L1_METADATA_FILE"} |-> [j \in {"RADIOMETRIC_RESCALING"} |-> SceneA]]

InitNotebookVars ==
    /\ red_toa = Undefined /\ nir_toa = Undefined /\ ndvi = Undefined
    /\ call = NoFnCall /\ err = NoErr

\* The helper alone: an empty directory, no call made yet.
Init ==
    /\ fs = EmptyMap
    /\ served = Bucket(FullDoc)
    /\ prev = Summary(NoCall) /\ last = NoCall
    /\ red = [i \in Coords |-> 218] /\ nir = [i \in Coords |-> 218]
    /\ pc = "idle"
    /\ InitNotebookVars

\* The functions alone: meta.json missing or with any content, any two arrays.
InitReflect ==
    /\ fs \in {EmptyMap} \cup {("meta.json" :> c) : c \in MetaContents}
    /\ served = Bucket(EmptyMap)
    /\ prev = Summary(NoCall) /\ last = NoCall
    /\ red \in Arrays /\ nir \in Arrays
    /\ pc = "idle"
    /\ InitNotebookVars

\* The notebook: an empty directory, any bucket, any scene, before the download cell.
InitNotebook ==
    /\ fs = EmptyMap
    /\ served \in Buckets
    /\ prev = Summary(NoCall) /\ last = NoCall
    /\ red \in SceneArrays /\ nir \in SceneArrays
    /\ pc = "download nir.tif"
    /\ InitNotebookVars

----------------------------------------------------------------------------
(* The helper called with any URL and any destination *)

Download(u, p) ==
    \E net \in requests_get(served, u), disk \in DiskOutcomes :
        LET r == download_file(fs, u, p, net, disk) IN
        /\ fs' = r.fs
        /\ prev' = Summary(last)
        /\ last' = CallRecord(fs, u, p, r)
        /\ UNCHANGED <<served, red, nir>>
        /\ UNCHANGED nbvars

Next == \E u \in URLs, p \in Paths : Download(u, p)

Spec == Init /\ [][Next]_vars

----------------------------------------------------------------------------
(* The functions called on any array and any band, the cells run in any order *)

FnCall(name, ds, band_number, r) ==
    [fn |-> name, band |-> band_number, ds |-> ds, exc |-> r.exc, value |-> r.value,
     ds_after |-> IF "ds" \in DOMAIN r THEN r.ds ELSE ds]

CallLoadScaleFactors(b) ==
    /\ call' = FnCall("load_scale_factors", <<>>, b, load_scale_factors(fs, "meta.json", b))
    /\ UNCHANGED <<fs, served, prev, last, red, nir, red_toa, nir_toa, ndvi, pc, err>>

CallCalculateReflectanceRed(b) ==
    LET r == calculate_reflectance(fs, red, b, "meta.json") IN
    /\ call' = FnCall("calculate_reflectance", red, b, r)
    /\ red' = r.ds
    /\ UNCHANGED <<fs, served, prev, last, nir, red_toa, nir_toa, ndvi, pc, err>>

CallCalculateReflectanceNir(b) ==
    LET r == calculate_reflectance(fs, nir, b, "meta.json") IN
    /\ call' = FnCall("calculate_reflectance", nir, b, r)
    /\ nir' = r.ds
    /\ UNCHANGED <<fs, served, prev, last, red, red_toa, nir_toa, ndvi, pc, err>>

\* red_toa = calculate_reflectance(red, band_number=4)
\* nir_toa = calculate_reflectance(nir, band_number=5)
ReflectanceCell ==
    LET r4 == calculate_reflectance(fs, red, RedBand, "meta.json")
        r5 == calculate_reflectance(fs, nir, NirBand, "meta.json") IN
    /\ red' = r4.ds
    /\ IF r4.exc # "none"
       THEN /\ call' = FnCall("calculate_reflectance", red, RedBand, r4)
            /\ UNCHANGED <<nir, red_toa, nir_toa>>
       ELSE /\ red_toa' = r4.value
            /\ call' = FnCall("calculate_reflectance", nir, NirBand, r5)
            /\ nir' = r5.ds
            /\ nir_toa' = IF r5.exc # "none" THEN nir_toa ELSE r5.value
    /\ UNCHANGED <<fs, served, prev, last, ndvi, pc, err>>

\* ndvi = (nir_toa - red_toa) / (nir_toa + red_toa)
NdviCell ==
    /\ red_toa # Undefined /\ nir_toa # Undefined
    /\ ndvi' = Val(ndvi_expr(nir_toa[1], red_toa[1]))
    /\ UNCHANGED <<fs, served, prev, last, red, nir, red_toa, nir_toa, call, pc, err>>

NextReflect ==
    \/ \E b \in Bands : CallLoadScaleFactors(b)
    \/ \E b \in Bands : CallCalculateReflectanceRed(b)
    \/ \E b \in Bands : CallCalculateReflectanceNir(b)
    \/ ReflectanceCell
    \/ NdviCell

SpecReflect == InitReflect /\ [][NextReflect]_vars

----------------------------------------------------------------------------
(* The notebook run from its download cell on, one statement at a time; an exception
   stops the run *)

Raise(step, exc) ==
    /\ err' = [step |-> step, exc |-> exc]
    /\ pc' = pc

StepDownload(step, u, p, next) ==
    /\ pc = step /\ err = NoErr
    /\ \E net \in requests_get(served, u), disk \in DiskOutcomes :
        LET r == download_file(fs, u, p, net, disk) IN
        /\ fs' = r.fs
        /\ prev' = Summary(last)
        /\ last' = CallRecord(fs, u, p, r)
        /\ IF r.outcome = "returned"
           THEN pc' = next /\ err' = err
           ELSE Raise(step, r.outcome)
    /\ UNCHANGED <<served, red, nir, red_toa, nir_toa, ndvi, call>>

\* red = xr.open_rasterio(red_filename, ...); nir = xr.open_rasterio(nir_filename, ...):
\* the library reads the rasters from the bucket, or raises.
StepOpenRasterio ==
    /\ pc = "open_rasterio" /\ err = NoErr
    /\ \/ pc' = "red_toa" /\ err' = err
       \/ Raise("open_rasterio", "RasterioIOError")
    /\ UNCHANGED <<fs, served, prev, last, red, nir, red_toa, nir_toa, ndvi, call>>

\* red_toa = calculate_reflectance(red, band_number=4)
StepRedToa ==
    /\ pc = "red_toa" /\ err = NoErr
    /\ LET r == calculate_reflectance(fs, red, RedBand, "meta.json") IN
        /\ call' = FnCall("calculate_reflectance", red, RedBand, r)
        /\ red' = r.ds
        /\ IF r.exc = "none"
           THEN red_toa' = r.value /\ pc' = "nir_toa" /\ err' = err
           ELSE red_toa' = red_toa /\ Raise("red_toa", r.exc)
    /\ UNCHANGED <<fs, served, prev, last, nir, nir_toa, ndvi>>

\* nir_toa = calculate_reflectance(nir, band_number=5)
StepNirToa ==
    /\ pc = "nir_toa" /\ err = NoErr
    /\ LET r == calculate_reflectance(fs, nir, NirBand, "meta.json") IN
        /\ call' = FnCall("calculate_reflectance", nir, NirBand, r)
        /\ nir' = r.ds
        /\ IF r.exc = "none"
           THEN nir_toa' = r.value /\ pc' = "ndvi" /\ err' = err
           ELSE nir_toa' = nir_toa /\ Raise("nir_toa", r.exc)
    /\ UNCHANGED <<fs, served, prev, last, red, red_toa, ndvi>>

\* ndvi = (nir_toa - red_toa) / (nir_toa + red_toa)
StepNdvi ==
    /\ pc = "ndvi" /\ err = NoErr
    /\ ndvi' = Val(ndvi_expr(nir_toa[1], red_toa[1]))
    /\ pc' = "done"
    /\ UNCHANGED <<fs, served, prev, last, red, nir, red_toa, nir_toa, call, err>>

\* The kernel is restarted and the notebook run again: the variables are gone, the
\* directory is as the last run left it.
Restart ==
    /\ err # NoErr \/ pc = "done"
    /\ pc' = "download nir.tif"
    /\ err' = NoErr
    /\ red_toa' = Undefined /\ nir_toa' = Undefined /\ ndvi' = Undefined
    /\ call' = NoFnCall
    /\ prev' = Summary(NoCall) /\ last' = NoCall
    /\ UNCHANGED <<fs, served, red, nir>>

NextNotebook ==
    \/ StepDownload("download nir.tif", nir_filename, "nir.tif", "download red.tif")
    \/ StepDownload("download red.tif", red_filename, "red.tif", "download meta.json")
    \/ StepDownload("download meta.json", mtl_filename, "meta.json", "open_rasterio")
    \/ StepOpenRasterio
    \/ StepRedToa
    \/ StepNirToa
    \/ StepNdvi
    \/ Restart

SpecNotebook == InitNotebook /\ [][NextNotebook]_vars

----------------------------------------------------------------------------
(* Properties of download_file, under Spec *)

SameDestinationTwice ==
    /\ prev.outcome # "none" /\ last.outcome # "none"
    /\ prev.out = last.out

C7_AtMostOneRequest ==
    last.outcome # "none" =>
        /\ last.nreq \in {0, 1}
        /\ last.existed => last.nreq = 0
        /\ ~last.existed => last.nreq = 1

C7_Witness ==
    /\ last.outcome = "request raised" /\ last.nreq = 1
    /\ prev.outcome = "returned" /\ prev.nreq = 0

\* C9: once a destination path exists, no call of download_file changes its content,
\* whatever URL the call names.
C9_ExistingFileKept ==
    [][\A p \in DOMAIN fs : p \in DOMAIN fs' /\ fs'[p] = fs[p]]_vars

\* download_file(u1, p) then download_file(u2, p), u1 # u2 with different objects: p
\* holds the body fetched from u1.
C9_Witness ==
    /\ SameDestinationTwice
    /\ prev.in # last.in /\ served[prev.in] # served[last.in]
    /\ prev.outcome = "returned" /\ prev.nreq = 1
    /\ last.outcome = "returned"
    /\ fs[last.out] = served[prev.in]

\* C10: a call whose request raises leaves the destination path non-existent, and the
\* next call with the same destination issues the request again; a call that returns
\* normally leaves the path existing, and when it made the request the content is the
\* response body, whatever the status of the response.
C10_RaiseLeavesNoFile ==
    /\ last.outcome = "request raised" => ~os_path_exists(fs, last.out)
    /\ (SameDestinationTwice /\ prev.outcome = "request raised") => last.nreq = 1
    /\ last.outcome = "returned" =>
        /\ os_path_exists(fs, last.out)
        /\ last.nreq = 1 => fs[last.out] = last.content

C10_Witness ==
    /\ SameDestinationTwice
    /\ prev.outcome = "request raised"
    /\ last.outcome = "returned" /\ last.nreq = 1
    /\ fs[last.out] = ErrorPage

----------------------------------------------------------------------------
(* Properties of load_scale_factors, calculate_reflectance and the NDVI expression,
   under SpecReflect *)

\* The keys of band 4 and 5 as the metadata documents spell them.
MultField(b) == IF b = 4 THEN "REFLECTANCE_MULT_BAND_4" ELSE "REFLECTANCE_MULT_BAND_5"
AddField(b) == IF b = 4 THEN "REFLECTANCE_ADD_BAND_4" ELSE "REFLECTANCE_ADD_BAND_5"

IsJson(fsys, path) == path \in DOMAIN fsys /\ fsys[path].text = "json"

HasRescaling(m) ==
    /\ "L1_METADATA_FILE" \in DOMAIN m
    /\ "RADIOMETRIC_RESCALING" \in DOMAIN m["L1_METADATA_FILE"]

RescalingOf(m) == m["L1_METADATA_FILE"]["RADIOMETRIC_RESCALING"]

\* The document of meta.json holds both coefficients of band b.
HasBand(fsys, b) ==
    /\ IsJson(fsys, "meta.json")
    /\ HasRescaling(fsys["meta.json"].value)
    /\ MultField(b) \in DOMAIN RescalingOf(fsys["meta.json"].value)
    /\ AddField(b) \in DOMAIN RescalingOf(fsys["meta.json"].value)

\* C2: the array calculate_reflectance returns holds m*X[i] + a at every index i of
\* the input X, (m, a) being the pair load_scale_factors returns for the band passed.
C2_LinearTransform ==
    (call.fn = "calculate_reflectance" /\ call.exc = "none") =>
        LET sf == load_scale_factors(fs, "meta.json", call.band)
            toa == call.value[1] IN
        /\ sf.exc = "none"
        /\ DOMAIN toa = DOMAIN call.ds
        /\ \A i \in DOMAIN call.ds : toa[i] = sf.value[1][1] * call.ds[i] + sf.value[1][2]

\* m = 2, a = -62, X[i] = 218 gives 374.
C2_Witness ==
    /\ call.fn = "calculate_reflectance" /\ call.exc = "none" /\ call.band = 4
    /\ load_scale_factors(fs, "meta.json", 4).value = << <<2, -62>> >>
    /\ \E i \in DOMAIN call.ds : call.ds[i] = 218 /\ call.value[1][i] = 374

\* C4: for a document that holds the rescaling section and both coefficients of band
\* b, load_scale_factors(file, b) returns the pair (REFLECTANCE_MULT_BAND_b,
\* REFLECTANCE_ADD_BAND_b) of that band, multiplier first.
C4_PairOfTheBand ==
    (call.fn = "load_scale_factors" /\ HasBand(fs, call.band)) =>
        LET r == RescalingOf(fs["meta.json"].value) IN
        /\ call.exc = "none"
        /\ call.value = << <<r[MultField(call.band)], r[AddField(call.band)]>> >>

C4_Witness ==
    /\ call.fn = "load_scale_factors" /\ call.band = 5
    /\ HasBand(fs, 4) /\ HasBand(fs, 5)
    /\ call.value = << <<3, -1>> >>

\* C5: when the document lacks the metadata structure or a coefficient of the band
\* asked for, load_scale_factors raises a lookup error and returns nothing, and so
\* does calculate_reflectance.
C5_LookupError ==
    (call.fn # "none" /\ IsJson(fs, "meta.json") /\ ~HasBand(fs, call.band)) =>
        (call.exc = "KeyError" /\ call.value = <<>>)

C5_Witness ==
    /\ call.fn = "calculate_reflectance" /\ call.exc = "KeyError"
    /\ IsJson(fs, "meta.json") /\ HasRescaling(fs["meta.json"].value)
    /\ MultField(call.band) \in DOMAIN RescalingOf(fs["meta.json"].value)
    /\ AddField(call.band) \notin DOMAIN RescalingOf(fs["meta.json"].value)

\* C6: the array calculate_reflectance returns has the index set of its input, and
\* the input array is as it was before the call.
C6_ShapeKeptInputUnchanged ==
    call.fn = "calculate_reflectance" =>
        /\ call.ds_after = call.ds
        /\ call.exc = "none" => DOMAIN call.value[1] = DOMAIN call.ds

C6_Witness ==
    /\ call.fn = "calculate_reflectance" /\ call.exc = "none"
    /\ DOMAIN call.ds = {2}
    /\ call.value[1] # call.ds
    /\ call.ds_after = call.ds

\* A quotient in [-1, 1].
InUnitInterval(q) ==
    \/ q.den > 0 /\ -q.den <= q.num /\ q.num <= q.den
    \/ q.den < 0 /\ q.den <= q.num /\ q.num <= -q.den

\* C3: at every element where both reflectances are non-negative and do not sum to
\* zero, the index lies in [-1, 1].
C3_IndexInUnitInterval ==
    ndvi # Undefined =>
        \A i \in DOMAIN ndvi[1] :
            (nir_toa[1][i] >= 0 /\ red_toa[1][i] >= 0 /\ nir_toa[1][i] + red_toa[1][i] # 0)
                => InUnitInterval(ndvi[1][i])

C3_Witness ==
    /\ ndvi # Undefined
    /\ \E i \in DOMAIN ndvi[1] :
        /\ nir_toa[1][i] = 653 /\ red_toa[1][i] = 374
        /\ ndvi[1][i] = Quot(279, 1027)

----------------------------------------------------------------------------
(* Properties of the notebook's cell sequence, under SpecNotebook *)

Steps == <<"download nir.tif", "download red.tif", "download meta.json", "open_rasterio",
           "red_toa", "nir_toa", "ndvi", "done">>
Position(step) == CHOOSE i \in 1..Len(Steps) : Steps[i] = step
Passed(step) == Position(pc) > Position(step)

\* C8: a failure reaches the runtime at the step where it occurs and no later step of
\* the run executes: the run stands at the step that raised, with the exception that
\* was raised; a download that raised is that step; a step is passed only when its
\* download left its file, and a reflectance or the index exists only when its step
\* was passed with both coefficients of its band in meta.json.
C8_FailureHaltsTheRun ==
    /\ err # NoErr => (pc = err.step /\ pc # "done")
    /\ last.outcome \notin {"none", "returned"} =>
        err = [step |-> "download " \o last.out, exc |-> last.outcome]
    /\ Passed("download nir.tif") => os_path_exists(fs, "nir.tif")
    /\ Passed("download red.tif") => os_path_exists(fs, "red.tif")
    /\ Passed("download meta.json") => os_path_exists(fs, "meta.json")
    /\ red_toa # Undefined => (Passed("red_toa") /\ HasBand(fs, 4))
    /\ nir_toa # Undefined => (Passed("nir_toa") /\ HasBand(fs, 5))
    /\ ndvi # Undefined => (pc = "done" /\ err = NoErr)

\* Malformed metadata (band 5 lacks a coefficient) stops the run at nir_toa: red_toa
\* exists, nir_toa and ndvi never do.
C8_Witness ==
    /\ err = [step |-> "nir_toa", exc |-> "KeyError"]
    /\ red_toa # Undefined /\ nir_toa = Undefined /\ ndvi = Undefined
    /\ ~HasBand(fs, 5)

====
